---- MODULE Spec2Model ----
(***************************************************************************)
(* A model of meshpy's rendering front end:                                *)
(*   - ViewsphereDiscretizer (mesh_renderer.py): the constructor and the   *)
(*     four nested while loops of object_to_camera_poses();                *)
(*   - VirtualCamera (mesh_renderer.py): images, images_viewsphere,        *)
(*     wrapped_images, wrapped_images_viewsphere;                          *)
(*   - StablePose (stable_pose.py): the constructor's row flip.            *)
(*                                                                         *)
(* Numbers.  Python floats are modelled as exact rationals <<n, d>> in     *)
(* lowest terms with d > 0; <<0, 0>> is NaN (what numpy yields for 0/0).   *)
(* Rounding is not modelled.  Angles are measured in quarter turns (pi/2), *)
(* and the model only draws configurations whose sampled angles are whole  *)
(* quarter turns, where cos and sin are exactly 0, 1 or -1.                *)
(***************************************************************************)
EXTENDS Integers, Sequences, FiniteSets, TLC

\* ------------------------------------------------------------------ bounds
\* Largest sample count per axis offered to the discretizer's constructor.
MaxNum == 2
\* Calls to object_to_camera_poses() made on one discretizer.
MaxCalls == 2
\* Longest list of transforms handed to the camera.
MaxLen == 2

VARIABLES
  ctor_args,    \* the arguments of the last ViewsphereDiscretizer(...) call
  disc,         \* the discretizer's twelve fields (NewDisc before construction)
  run,          \* the activation of object_to_camera_poses(): pc and locals
  returned,     \* what each finished call of object_to_camera_poses() returned
  r_arg,        \* the rotation array as it was passed to StablePose(...)
  stable_pose,  \* the constructed StablePose (NoPose before construction)
  camera_intr,  \* VirtualCamera._camera_intr
  poses,        \* the caller's list of RigidTransform objects
  given,        \* the caller's list as it was when the last request was made
  request,      \* the last request: operation, render mode, stable pose, raised
  used,         \* the transforms the last request built its projections from
  render_calls, \* the calls meshrender.render_mesh received during the last request
  result        \* what the last request returned

vars == <<ctor_args, disc, run, returned, r_arg, stable_pose,
          camera_intr, poses, given, request, used, render_calls, result>>

vs_vars == <<ctor_args, disc, run, returned>>
stp_vars == <<r_arg, stable_pose>>
cam_vars == <<camera_intr, poses, given, request, used, render_calls, result>>

\* ------------------------------------------------------------- arithmetic
Abs(i) == IF i < 0 THEN -i ELSE i

RECURSIVE Gcd(_, _)
Gcd(a, b) == IF b = 0 THEN a ELSE Gcd(b, a % b)

RECURSIVE Lcm1(_)
\* least common multiple of 1..n
Lcm1(n) == IF n <= 1 THEN 1 ELSE LET l == Lcm1(n - 1) IN (l * n) \div Gcd(l, n)

NaN == <<0, 0>>
IsNaN(q) == q[2] = 0

\* the rational n/d in lowest terms, d /= 0
Q(n, d) ==
  IF d = 1 THEN <<n, 1>>
  ELSE LET g == Gcd(Abs(n), Abs(d))
           s == IF d < 0 THEN -1 ELSE 1
       IN  <<(s * n) \div g, Abs(d) \div g>>

I(n) == <<n, 1>>
Zero == I(0)
One == I(1)

RAdd(a, b) == IF IsNaN(a) \/ IsNaN(b) THEN NaN
              ELSE Q(a[1] * b[2] + b[1] * a[2], a[2] * b[2])
RNeg(a) == IF IsNaN(a) THEN NaN ELSE <<-a[1], a[2]>>
RSub(a, b) == RAdd(a, RNeg(b))
RMul(a, b) == IF IsNaN(a) \/ IsNaN(b) THEN NaN ELSE Q(a[1] * b[1], a[2] * b[2])
\* numpy's elementwise division: x/0 does not raise; 0/0 is nan.  (x/0 with
\* x /= 0 would be an infinity; the only zero divisor the code can meet is the
\* norm of a zero vector, so every such quotient is 0/0.)
RDivNp(a, b) == IF IsNaN(a) \/ IsNaN(b) \/ b[1] = 0 THEN NaN
                ELSE Q(a[1] * b[2], a[2] * b[1])
\* Python's scalar division, for a divisor that is not zero
RDiv(a, b) == Q(a[1] * b[2], a[2] * b[1])
\* comparisons: every comparison with nan is False
REq(a, b) == ~IsNaN(a) /\ ~IsNaN(b) /\ a = b
RLt(a, b) == ~IsNaN(a) /\ ~IsNaN(b) /\ a[1] * b[2] < b[1] * a[2]
RLe(a, b) == ~IsNaN(a) /\ ~IsNaN(b) /\ a[1] * b[2] <= b[1] * a[2]
RAbs(a) == IF IsNaN(a) THEN NaN ELSE <<Abs(a[1]), a[2]>>

ISqrt(n) == CHOOSE k \in 0..n : k * k = n
\* the square root of a rational that is a perfect square
RSqrt(a) == IF IsNaN(a) THEN NaN ELSE <<ISqrt(a[1]), ISqrt(a[2])>>

\* cos and sin of a whole number of quarter turns
Cos(a) == I(CASE a[1] % 4 = 0 -> 1 [] a[1] % 4 = 2 -> -1 [] OTHER -> 0)
Sin(a) == I(CASE a[1] % 4 = 1 -> 1 [] a[1] % 4 = 3 -> -1 [] OTHER -> 0)

\* ---------------------------------------------------------- linear algebra
\* vectors are triples, matrices triples of rows
Dot(u, v) == RAdd(RAdd(RMul(u[1], v[1]), RMul(u[2], v[2])), RMul(u[3], v[3]))
VNeg(u) == <<RNeg(u[1]), RNeg(u[2]), RNeg(u[3])>>
VAdd(u, v) == <<RAdd(u[1], v[1]), RAdd(u[2], v[2]), RAdd(u[3], v[3])>>
VDivNp(u, q) == <<RDivNp(u[1], q), RDivNp(u[2], q), RDivNp(u[3], q)>>
VNorm(u) == RSqrt(Dot(u, u))
Cross(u, v) == <<RSub(RMul(u[2], v[3]), RMul(u[3], v[2])),
                 RSub(RMul(u[3], v[1]), RMul(u[1], v[3])),
                 RSub(RMul(u[1], v[2]), RMul(u[2], v[1]))>>
Col(m, j) == <<m[1][j], m[2][j], m[3][j]>>
Transpose(m) == <<Col(m, 1), Col(m, 2), Col(m, 3)>>
\* np.c_[x, y, z]: the matrix whose columns are x, y, z
Columns(x, y, z) == Transpose(<<x, y, z>>)
MatVec(m, v) == <<Dot(m[1], v), Dot(m[2], v), Dot(m[3], v)>>
MatMul(a, b) ==
  <<<<Dot(a[1], Col(b, 1)), Dot(a[1], Col(b, 2)), Dot(a[1], Col(b, 3))>>,
    <<Dot(a[2], Col(b, 1)), Dot(a[2], Col(b, 2)), Dot(a[2], Col(b, 3))>>,
    <<Dot(a[3], Col(b, 1)), Dot(a[3], Col(b, 2)), Dot(a[3], Col(b, 3))>>>>
Det(m) == Dot(m[1], Cross(m[2], m[3]))
Identity == <<<<One, Zero, Zero>>, <<Zero, One, Zero>>, <<Zero, Zero, One>>>>
ZeroVec == <<Zero, Zero, Zero>>

\* the function f on 1..n as the sequence <<f[1], ..., f[n]>>
RECURSIVE FirstN(_, _)
FirstN(f, n) == IF n = 0 THEN <<>> ELSE Append(FirstN(f, n - 1), f[n])
AsSeq(f) == FirstN(f, Cardinality(DOMAIN f))

\* ------------------------------------------------ RigidTransform (alan.core)
RigidTransform(R, t, from_frame, to_frame) ==
  [rotation |-> R, translation |-> t, from_frame |-> from_frame, to_frame |-> to_frame]

\* inversion: transpose of the rotation, negated rotated translation, frames swapped
Inverse(T) ==
  RigidTransform(Transpose(T.rotation),
                 VNeg(MatVec(Transpose(T.rotation), T.translation)),
                 T.to_frame, T.from_frame)

\* T.dot(other): the composition T * other of the homogeneous forms
TDot(T, other) ==
  RigidTransform(MatMul(T.rotation, other.rotation),
                 VAdd(T.translation, MatVec(T.rotation, other.translation)),
                 other.from_frame, T.to_frame)

\* ------------------------------------------------- ViewsphereDiscretizer
\* a constructor that also insists on num_roll >= 1
CheckRollToo(a) == a.num_radii < 1 \/ a.num_az < 1 \/ a.num_elev < 1 \/ a.num_roll < 1

\* __init__'s test: ValueError unless every checked count is at least one
InvalidDiscretization(a) == a.num_radii < 1 \/ a.num_az < 1 \/ a.num_elev < 1

\* __init__'s twelve assignments
StoreFields(a) ==
  [state |-> "constructed",
   min_radius |-> a.min_radius, max_radius |-> a.max_radius, num_radii |-> a.num_radii,
   min_az |-> a.min_az, max_az |-> a.max_az, num_az |-> a.num_az,
   min_elev |-> a.min_elev, max_elev |-> a.max_elev, num_elev |-> a.num_elev,
   min_roll |-> a.min_roll, max_roll |-> a.max_roll, num_roll |-> a.num_roll]

NewDisc == [state |-> "new"]
RejectedDisc == [state |-> "ValueError"]
NoArgs == [state |-> "none"]

\* the increment of an inclusive axis (radius, elevation)
InclusiveInc(min, max, num) ==
  IF REq(max, min) THEN One
  ELSE IF num = 1 THEN RAdd(RSub(max, min), One)
  ELSE RDiv(RSub(max, min), I(num - 1))

\* the increment of a half-open axis (azimuth, roll); num /= 0
HalfOpenInc(min, max, num) == RDiv(RSub(max, min), I(num))

sph2cart(r, az, elev) ==
  <<RMul(RMul(r, Cos(az)), Sin(elev)),
    RMul(RMul(r, Sin(az)), Sin(elev)),
    RMul(r, Cos(elev))>>

\* the body of the innermost loop: the transform appended for one sample
CameraPose(radius, az, elev, roll) ==
  LET camera_center_obj == sph2cart(radius, az, elev)
      camera_z_obj == VDivNp(VNeg(camera_center_obj), VNorm(camera_center_obj))
      x_perp == <<camera_z_obj[2], RNeg(camera_z_obj[1]), Zero>>
      x_pick == IF REq(VNorm(x_perp), Zero) THEN <<One, Zero, Zero>> ELSE x_perp
      x_unit == VDivNp(x_pick, VNorm(x_pick))
      y_cross == Cross(camera_z_obj, x_unit)
      y_unit == VDivNp(y_cross, VNorm(y_cross))
      flip == RLt(Zero, y_unit[3])
      camera_x_par_obj == IF flip THEN VNeg(x_unit) ELSE x_unit
      y_again == Cross(camera_z_obj, camera_x_par_obj)
      camera_y_par_obj == IF flip THEN VDivNp(y_again, VNorm(y_again)) ELSE y_unit
      R_obj_camera_par == Columns(camera_x_par_obj, camera_y_par_obj, camera_z_obj)
      R_camera_par_camera == <<<<Cos(roll), RNeg(Sin(roll)), Zero>>,
                               <<Sin(roll), Cos(roll), Zero>>,
                               <<Zero, Zero, One>>>>
      R_obj_camera == MatMul(R_obj_camera_par, R_camera_par_camera)
      T_obj_camera == RigidTransform(R_obj_camera, camera_center_obj, "camera", "obj")
  IN  Inverse(T_obj_camera)

Idle ==
  [pc |-> "idle",
   radius_inc |-> Zero, az_inc |-> Zero, elev_inc |-> Zero, roll_inc |-> Zero,
   radius |-> Zero, elev |-> Zero, az |-> Zero, roll |-> Zero,
   object_to_camera_poses |-> <<>>, samples |-> <<>>]

\* entry of object_to_camera_poses(): the increments, the empty list, the
\* first radius.  Dividing by num_roll = 0 raises ZeroDivisionError.
Enter(d) ==
  IF d.num_roll = 0 THEN [Idle EXCEPT !.pc = "ZeroDivisionError"]
  ELSE [Idle EXCEPT
          !.pc = "while_radius",
          !.radius_inc = InclusiveInc(d.min_radius, d.max_radius, d.num_radii),
          !.az_inc = HalfOpenInc(d.min_az, d.max_az, d.num_az),
          !.elev_inc = InclusiveInc(d.min_elev, d.max_elev, d.num_elev),
          !.roll_inc = HalfOpenInc(d.min_roll, d.max_roll, d.num_roll),
          !.radius = d.min_radius]

\* while radius <= self.max_radius
WhileRadius(d, s) ==
  IF RLe(s.radius, d.max_radius)
  THEN [s EXCEPT !.elev = d.min_elev, !.pc = "while_elev"]
  ELSE [s EXCEPT !.pc = "return"]

\* while elev <= self.max_elev ... radius += radius_inc
WhileElev(d, s) ==
  IF RLe(s.elev, d.max_elev)
  THEN [s EXCEPT !.az = d.min_az, !.pc = "while_az"]
  ELSE [s EXCEPT !.radius = RAdd(s.radius, s.radius_inc), !.pc = "while_radius"]

\* an azimuth loop that includes its endpoint (az <= self.max_az)
WhileAzInclusive(d, s) ==
  IF RLe(s.az, d.max_az)
  THEN [s EXCEPT !.roll = d.min_roll, !.pc = "while_roll"]
  ELSE [s EXCEPT !.elev = RAdd(s.elev, s.elev_inc), !.pc = "while_elev"]

\* while az < self.max_az ... elev += elev_inc
WhileAz(d, s) ==
  IF RLt(s.az, d.max_az)
  THEN [s EXCEPT !.roll = d.min_roll, !.pc = "while_roll"]
  ELSE [s EXCEPT !.elev = RAdd(s.elev, s.elev_inc), !.pc = "while_elev"]

\* a body that inserts at the front of the list instead of appending
PrependPose(s) ==
  [s EXCEPT
     !.object_to_camera_poses = <<CameraPose(s.radius, s.az, s.elev, s.roll)>> \o @,
     !.samples = <<<<s.radius, s.elev, s.az, s.roll>>>> \o @]

\* object_to_camera_poses.append(...); `samples` records, beside each
\* transform, the loop variables it was generated from
AppendPose(s) ==
  [s EXCEPT
     !.object_to_camera_poses = Append(@, CameraPose(s.radius, s.az, s.elev, s.roll)),
     !.samples = Append(@, <<s.radius, s.elev, s.az, s.roll>>)]

\* while roll < self.max_roll: body, roll += roll_inc ... az += az_inc
WhileRoll(d, s) ==
  IF RLt(s.roll, d.max_roll)
  THEN [AppendPose(s) EXCEPT !.roll = RAdd(s.roll, s.roll_inc)]
  ELSE [s EXCEPT !.az = RAdd(s.az, s.az_inc), !.pc = "while_az"]

\* the input sets: angle ranges are multiples of AngleGrid quarter turns, so
\* that every sampled angle is a whole quarter turn
AngleGrid == Lcm1(MaxNum)
RadiusRanges == {<<I(1), I(1)>>, <<I(1), I(2)>>, <<I(2), I(1)>>, <<I(0), I(1)>>}
ElevRanges == {<<I(0), I(AngleGrid)>>, <<I(1), I(1)>>, <<I(1), I(1 + AngleGrid)>>,
               <<I(AngleGrid), I(0)>>}
AzRanges == {<<I(0), I(2 * AngleGrid)>>, <<I(1), I(1 + AngleGrid)>>, <<I(1), I(1)>>,
             <<I(AngleGrid), I(0)>>}
RollRanges == {<<I(0), I(2 * AngleGrid)>>, <<I(1), I(1 + AngleGrid)>>, <<I(1), I(1)>>}
Counts == 0..MaxNum
RollCounts == -1..MaxNum

\* the most transforms a terminating call can produce within the bounds;
\* the loop body is not run beyond it, which cuts off calls that never end
MaxPoses == MaxNum * MaxNum * MaxNum * MaxNum

\* ViewsphereDiscretizer(min_radius, ..., num_roll)
Construct ==
  /\ disc = NewDisc
  /\ \E rr \in RadiusRanges, er \in ElevRanges, ar \in AzRanges, ro \in RollRanges,
        nr \in Counts, ne \in Counts, na \in Counts, nro \in RollCounts :
       LET a == [min_radius |-> rr[1], max_radius |-> rr[2], num_radii |-> nr,
                 min_elev |-> er[1], max_elev |-> er[2], num_elev |-> ne,
                 min_az |-> ar[1], max_az |-> ar[2], num_az |-> na,
                 min_roll |-> ro[1], max_roll |-> ro[2], num_roll |-> nro]
       IN  /\ ctor_args' = a
           /\ disc' = IF InvalidDiscretization(a) THEN RejectedDisc ELSE StoreFields(a)
  /\ UNCHANGED <<run, returned, stp_vars, cam_vars>>

\* a call of object_to_camera_poses() begins
Call ==
  /\ disc.state = "constructed"
  /\ run.pc = "idle"
  /\ Len(returned) < MaxCalls
  /\ run' = Enter(disc)
  /\ UNCHANGED <<ctor_args, disc, returned, stp_vars, cam_vars>>

RadiusLoop ==
  /\ run.pc = "while_radius"
  /\ run' = WhileRadius(disc, run)
  /\ UNCHANGED <<ctor_args, disc, returned, stp_vars, cam_vars>>

ElevLoop ==
  /\ run.pc = "while_elev"
  /\ run' = WhileElev(disc, run)
  /\ UNCHANGED <<ctor_args, disc, returned, stp_vars, cam_vars>>

AzLoop ==
  /\ run.pc = "while_az"
  /\ run' = WhileAz(disc, run)
  /\ UNCHANGED <<ctor_args, disc, returned, stp_vars, cam_vars>>

RollLoop ==
  /\ run.pc = "while_roll"
  /\ RLt(run.roll, disc.max_roll) => Len(run.object_to_camera_poses) < MaxPoses
  /\ run' = WhileRoll(disc, run)
  /\ UNCHANGED <<ctor_args, disc, returned, stp_vars, cam_vars>>

\* return object_to_camera_poses
Return ==
  /\ run.pc = "return"
  /\ returned' = Append(returned, [poses |-> run.object_to_camera_poses,
                                   samples |-> run.samples])
  /\ run' = Idle
  /\ UNCHANGED <<ctor_args, disc, stp_vars, cam_vars>>

NoPose == [state |-> "new"]
NoRequest ==
  [op |-> "none", render_mode |-> "none", stable_pose |-> [state |-> "None"],
   pending |-> FALSE, raised |-> "none"]

InitRest ==
  /\ ctor_args = NoArgs /\ disc = NewDisc /\ run = Idle /\ returned = <<>>
  /\ r_arg = Identity /\ stable_pose = NoPose
  /\ camera_intr = [state |-> "new"] /\ poses = <<>> /\ given = <<>>
  /\ request = NoRequest /\ used = <<>> /\ render_calls = <<>> /\ result = [kind |-> "none"]

InitVS == InitRest

NextVS == Construct \/ Call \/ RadiusLoop \/ ElevLoop \/ AzLoop \/ RollLoop \/ Return

SpecVS == InitVS /\ [][NextVS]_vars

\* ------------------------------------------------------------ StablePose
\* a flip of the first row (index 0) instead of the second
FlipFirstRow(r) ==
  IF RLt(RAbs(RAdd(Det(r), One)), Q(1, 100))
  THEN <<VNeg(r[1]), r[2], r[3]>>
  ELSE r

\* __init__: self.r = r, then the row flip when det(r) is within 0.01 of -1
FixRotation(r) ==
  IF RLt(RAbs(RAdd(Det(r), One)), Q(1, 100))
  THEN <<r[1], VNeg(r[2]), r[3]>>
  ELSE r

StablePoseInit(p, r, x0, stp_id) ==
  [state |-> "constructed", p |-> p, r |-> FixRotation(r), x0 |-> x0, id |-> stp_id]

\* the rotations offered to StablePose(...): the 48 signed permutation
\* matrices, each with its second row scaled by 1, 199/200 (a determinant
\* within 0.01 of +-1), 99/100 (exactly 0.01 away) or 2
Perm3 == {f \in [1..3 -> 1..3] : \A i, j \in 1..3 : f[i] = f[j] => i = j}
Signs == [1..3 -> {-1, 1}]
RowScales == {I(1), Q(199, 200), Q(99, 100), I(2)}
SignedPermutation(f, sg) ==
  [i \in 1..3 |-> [j \in 1..3 |-> IF f[i] = j THEN I(sg[i]) ELSE Zero]]
ScaleRow(m, f) == <<m[1], <<RMul(f, m[2][1]), RMul(f, m[2][2]), RMul(f, m[2][3])>>, m[3]>>
RotationArgs ==
  {ScaleRow(SignedPermutation(f, sg), sc) : f \in Perm3, sg \in Signs, sc \in RowScales}

\* StablePose(p, r, x0, stp_id)
ConstructStablePose ==
  /\ stable_pose = NoPose
  /\ \E r \in RotationArgs, p \in {Zero, Q(1, 2)} :
       /\ r_arg' = r
       /\ stable_pose' = StablePoseInit(p, r, ZeroVec, -1)
  /\ UNCHANGED <<vs_vars, cam_vars>>

\* the T_obj_table property
T_obj_table ==
  /\ stable_pose # NoPose
  /\ result.kind = "none"
  /\ result' = [kind |-> "T_obj_table",
                value |-> RigidTransform(stable_pose.r, ZeroVec, "obj", "table")]
  /\ UNCHANGED <<vs_vars, stp_vars, camera_intr, poses, given, request, used, render_calls>>

InitStp == InitRest

NextStp == ConstructStablePose \/ T_obj_table

SpecStp == InitStp /\ [][NextStp]_vars

\* --------------------------------------------------------- VirtualCamera
None == [state |-> "None"]

\* self._camera_intr.proj_matrix.dot(np.c_[R, t]): the 3x4 projection matrix
ProjMatrix(K, T) ==
  AsSeq([i \in 1..3 |->
    <<Dot(K[i], Col(T.rotation, 1)), Dot(K[i], Col(T.rotation, 2)),
      Dot(K[i], Col(T.rotation, 3)), Dot(K[i], T.translation)>>])

\* the loop of images(): one projection per transform, in list order
Projections(intr, object_to_camera_poses) ==
  AsSeq([k \in 1..Len(object_to_camera_poses) |-> ProjMatrix(intr.proj_matrix, object_to_camera_poses[k])])

\* meshrender.render_mesh (the external rasterizer): a binary image and a
\* depth image for each projection, in the order given
render_mesh(projections, height, width, vertex_arr, tri_arr, debug) ==
  [binary_ims |-> AsSeq([k \in 1..Len(projections) |->
                     [kind |-> "binary", projection |-> projections[k],
                      height |-> height, width |-> width]]),
   depth_ims |-> AsSeq([k \in 1..Len(projections) |->
                     [kind |-> "depth", projection |-> projections[k],
                      height |-> height, width |-> width]])]

\* an images() that calls the rasterizer once per transform (and once, with
\* nothing, for an empty list)
RenderCallPerTransform(intr, mesh, object_to_camera_poses, debug) ==
  IF object_to_camera_poses = <<>>
  THEN <<[projections |-> <<>>, height |-> intr.height, width |-> intr.width,
          vertex_arr |-> mesh.vertices, tri_arr |-> mesh.triangles, debug |-> debug]>>
  ELSE AsSeq([k \in 1..Len(object_to_camera_poses) |->
           [projections |-> <<ProjMatrix(intr.proj_matrix, object_to_camera_poses[k])>>,
            height |-> intr.height, width |-> intr.width,
            vertex_arr |-> mesh.vertices, tri_arr |-> mesh.triangles, debug |-> debug]])

\* the calls images() makes to the rasterizer: one, with the whole batch
RenderCalls(intr, mesh, object_to_camera_poses, debug) ==
  <<[projections |-> Projections(intr, object_to_camera_poses),
     height |-> intr.height, width |-> intr.width,
     vertex_arr |-> mesh.vertices, tri_arr |-> mesh.triangles, debug |-> debug]>>

\* what images() returns: the rasterizer's answer to its call
ImagesReturned(calls) ==
  LET c == calls[Len(calls)]
  IN  render_mesh(c.projections, c.height, c.width, c.vertex_arr, c.tri_arr, c.debug)

\* the stable-pose block of wrapped_images: every input transform has its
\* from_frame set to 'stp' (the copy of the list is shallow, so these are the
\* caller's objects)
Relabelled(object_to_camera_poses, stp) ==
  IF stp = None THEN object_to_camera_poses
  ELSE AsSeq([k \in 1..Len(object_to_camera_poses) |->
                [object_to_camera_poses[k] EXCEPT !.from_frame = "stp"]])

\* ... and the list rendered from is each of them times T_obj_stp
Composed(stp_to_camera_poses, stp) ==
  IF stp = None THEN stp_to_camera_poses
  ELSE AsSeq([k \in 1..Len(stp_to_camera_poses) |->
                TDot(stp_to_camera_poses[k],
                     RigidTransform(stp.r, ZeroVec, "obj", "stp"))])

SupportedMode(render_mode) == render_mode \in {"SEGMASK", "DEPTH", "SCALED_DEPTH"}

\* the image wrappers of wrapped_images, for a supported mode
WrapImages(intr, render_mode, ims) ==
  CASE render_mode = "SEGMASK" ->
         AsSeq([k \in 1..Len(ims.binary_ims) |->
                  [class |-> "BinaryImage", data |-> ims.binary_ims[k], channel |-> 0,
                   frame |-> intr.frame]])
    [] render_mode = "DEPTH" ->
         AsSeq([k \in 1..Len(ims.depth_ims) |->
                  [class |-> "DepthImage", data |-> ims.depth_ims[k],
                   frame |-> intr.frame]])
    [] render_mode = "SCALED_DEPTH" ->
         AsSeq([k \in 1..Len(ims.depth_ims) |->
                  [class |-> "ColorImage", data |-> ims.depth_ims[k],
                   frame |-> "camera"]])

\* a wrapped_images that inverts the list it rendered from
InvertRendered(stp_to_camera_poses, rendered_from, stp) == rendered_from

\* the list wrapped_images inverts for the rendered results: with a stable
\* pose, the stable-pose-to-camera transforms it kept, not the list rendered
PosesToInvert(stp_to_camera_poses, rendered_from, stp) ==
  IF stp # None THEN stp_to_camera_poses ELSE rendered_from

\* zip(images, object_to_camera_poses) with each transform inverted
RenderedImages(images, object_to_camera_poses) ==
  AsSeq([k \in 1..(IF Len(images) < Len(object_to_camera_poses)
                   THEN Len(images) ELSE Len(object_to_camera_poses)) |->
           [image |-> images[k], T_camera_obj |-> Inverse(object_to_camera_poses[k])]])

\* a wrapped_images without the early return: an unsupported mode falls
\* through to the zip with no images and yields an empty list
WrappedResultNoEarlyReturn(intr, render_mode, ims, to_invert) ==
  IF SupportedMode(render_mode)
  THEN [kind |-> "list",
        items |-> RenderedImages(WrapImages(intr, render_mode, ims), to_invert)]
  ELSE [kind |-> "list", items |-> <<>>]

\* what wrapped_images returns: None for an unsupported mode
WrappedResult(intr, render_mode, ims, to_invert) ==
  IF SupportedMode(render_mode)
  THEN [kind |-> "list",
        items |-> RenderedImages(WrapImages(intr, render_mode, ims), to_invert)]
  ELSE [kind |-> "None"]

\* inputs
Mesh == [vertices |-> "vertices", triangles |-> "triangles"]
Intrinsics ==
  {[proj_matrix |-> <<<<I(2), Zero, One>>, <<Zero, I(2), One>>, <<Zero, Zero, One>>>>,
    height |-> 2, width |-> 3, frame |-> "camera"],
   [proj_matrix |-> <<<<I(3), Zero, I(2)>>, <<Zero, I(3), One>>, <<Zero, Zero, One>>>>,
    height |-> 4, width |-> 4, frame |-> "primesense"]}
QuarterTurnZ == <<<<Zero, I(-1), Zero>>, <<One, Zero, Zero>>, <<Zero, Zero, One>>>>
QuarterTurnX == <<<<One, Zero, Zero>>, <<Zero, Zero, I(-1)>>, <<Zero, One, Zero>>>>
Mirror == <<<<One, Zero, Zero>>, <<Zero, One, Zero>>, <<Zero, Zero, I(-1)>>>>
Transforms ==
  {RigidTransform(Identity, <<Zero, Zero, One>>, "obj", "camera"),
   RigidTransform(QuarterTurnZ, <<One, Zero, I(2)>>, "obj", "camera"),
   RigidTransform(QuarterTurnX, <<Zero, Q(1, 2), I(3)>>, "obj", "camera")}
TransformLists == UNION {[1..n -> Transforms] : n \in 0..MaxLen}
StablePoses ==
  {None,
   StablePoseInit(Q(1, 2), QuarterTurnX, ZeroVec, -1),
   StablePoseInit(Q(1, 4), Mirror, ZeroVec, -1)}
RenderModes == {"SEGMASK", "DEPTH", "SCALED_DEPTH", "COLOR"}
DiscretizerArgs ==
  {[min_radius |-> One, max_radius |-> One, num_radii |-> 1,
    min_elev |-> Zero, max_elev |-> I(2), num_elev |-> 2,
    min_az |-> Zero, max_az |-> I(4), num_az |-> 1,
    min_roll |-> Zero, max_roll |-> I(4), num_roll |-> 1],
   [min_radius |-> One, max_radius |-> I(2), num_radii |-> 2,
    min_elev |-> One, max_elev |-> One, num_elev |-> 1,
    min_az |-> Zero, max_az |-> I(4), num_az |-> 2,
    min_roll |-> Zero, max_roll |-> I(4), num_roll |-> 1]}

Finished(op, render_mode, stp) ==
  [op |-> op, render_mode |-> render_mode, stable_pose |-> stp, pending |-> FALSE,
   raised |-> "none"]

\* images(mesh, object_to_camera_poses, debug), called by `op`
ImagesOn(op, object_to_camera_poses, debug) ==
  \E calls \in {RenderCalls(camera_intr, Mesh, object_to_camera_poses, debug)} :
    \E ims \in {ImagesReturned(calls)} :
      /\ request' = Finished(op, "none", None)
      /\ given' = object_to_camera_poses
      /\ used' = object_to_camera_poses
      /\ render_calls' = calls
      /\ result' = [kind |-> "pair", binary_ims |-> ims.binary_ims,
                    depth_ims |-> ims.depth_ims]

\* RigidTransform.dot raises ValueError unless the right operand's to_frame
\* ('stp' for T_obj_stp) is the left operand's from_frame
FramesMatch(stp_to_camera_poses, stp) ==
  stp = None \/ \A k \in 1..Len(stp_to_camera_poses) :
                  stp_to_camera_poses[k].from_frame = "stp"

\* wrapped_images(mesh, object_to_camera_poses, render_mode, stable_pose),
\* called by `op`; the caller's list `poses` is the argument when op is
\* wrapped_images itself
WrappedImagesOn(op, object_to_camera_poses, render_mode, stp) ==
  \E stp_to_camera_poses \in {Relabelled(object_to_camera_poses, stp)} :
    /\ given' = object_to_camera_poses
    /\ poses' = IF op = "wrapped_images" THEN stp_to_camera_poses ELSE poses
    /\ IF FramesMatch(stp_to_camera_poses, stp)
       THEN \E rendered_from \in {Composed(stp_to_camera_poses, stp)} :
              \E calls \in {RenderCalls(camera_intr, Mesh, rendered_from, FALSE)} :
                \E ims \in {ImagesReturned(calls)} :
                  /\ request' = Finished(op, render_mode, stp)
                  /\ used' = rendered_from
                  /\ render_calls' = calls
                  /\ result' = WrappedResult(camera_intr, render_mode, ims,
                                  PosesToInvert(stp_to_camera_poses, rendered_from, stp))
       ELSE /\ request' = [Finished(op, render_mode, stp) EXCEPT !.raised = "ValueError"]
            /\ used' = <<>>
            /\ render_calls' = <<>>
            /\ result' = [kind |-> "none"]

\* camera.images(mesh, poses, debug)
ImagesRequest ==
  /\ ~request.pending
  /\ \E debug \in BOOLEAN : ImagesOn("images", poses, debug)
  /\ UNCHANGED <<vs_vars, stp_vars, camera_intr, poses>>

\* camera.wrapped_images(mesh, poses, render_mode, stable_pose)
WrappedImagesRequest ==
  /\ ~request.pending
  /\ \E render_mode \in RenderModes, stp \in StablePoses :
       WrappedImagesOn("wrapped_images", poses, render_mode, stp)
  /\ UNCHANGED <<vs_vars, stp_vars, camera_intr>>

\* a *_viewsphere request begins: it calls vs_disc.object_to_camera_poses(),
\* whose loops then run (RadiusLoop, ElevLoop, AzLoop, RollLoop)
ViewsphereBegin(op, render_mode, stp) ==
  /\ ~request.pending
  /\ run.pc = "idle"
  /\ request' = [op |-> op, render_mode |-> render_mode, stable_pose |-> stp,
                 pending |-> TRUE, raised |-> "none"]
  /\ run' = Enter(disc)
  /\ given' = <<>> /\ used' = <<>> /\ render_calls' = <<>>
  /\ result' = [kind |-> "none"]
  /\ UNCHANGED <<ctor_args, disc, returned, stp_vars, camera_intr, poses>>

\* camera.images_viewsphere(mesh, vs_disc)
ImagesViewsphereRequest == ViewsphereBegin("images_viewsphere", "none", None)

\* camera.wrapped_images_viewsphere(mesh, vs_disc, render_mode, stable_pose)
WrappedImagesViewsphereRequest ==
  \E render_mode \in RenderModes, stp \in StablePoses :
    ViewsphereBegin("wrapped_images_viewsphere", render_mode, stp)

\* object_to_camera_poses() has returned to images_viewsphere, which passes
\* the list to images
ImagesViewsphereRender ==
  /\ request.pending /\ request.op = "images_viewsphere"
  /\ run.pc = "return"
  /\ ImagesOn(request.op, run.object_to_camera_poses, FALSE)
  /\ run' = Idle
  /\ UNCHANGED <<ctor_args, disc, returned, stp_vars, camera_intr, poses>>

\* object_to_camera_poses() has returned to wrapped_images_viewsphere, which
\* passes the list to wrapped_images
WrappedImagesViewsphereRender ==
  /\ request.pending /\ request.op = "wrapped_images_viewsphere"
  /\ run.pc = "return"
  /\ WrappedImagesOn(request.op, run.object_to_camera_poses,
                     request.render_mode, request.stable_pose)
  /\ run' = Idle
  /\ UNCHANGED <<ctor_args, disc, returned, stp_vars, camera_intr>>

\* a camera constructed from intrinsics, the caller's list of transforms and
\* the discretizer the caller holds
InitCam ==
  /\ \E a \in DiscretizerArgs : ctor_args = a /\ disc = StoreFields(a)
  /\ run = Idle /\ returned = <<>>
  /\ r_arg = Identity /\ stable_pose = NoPose
  /\ camera_intr \in Intrinsics
  /\ poses \in TransformLists
  /\ given = <<>> /\ used = <<>> /\ render_calls = <<>>
  /\ request = NoRequest /\ result = [kind |-> "none"]

NextCam ==
  \/ ImagesRequest \/ WrappedImagesRequest
  \/ ImagesViewsphereRequest \/ WrappedImagesViewsphereRequest
  \/ RadiusLoop \/ ElevLoop \/ AzLoop \/ RollLoop
  \/ ImagesViewsphereRender \/ WrappedImagesViewsphereRender

SpecCam == InitCam /\ [][NextCam]_vars

\* ------------------------------------- claims about ViewsphereDiscretizer
Constructed == disc.state = "constructed"

\* the samples an inclusive axis yields: one when min = max, num when
\* min < max, none when min > max
InclusiveCount(min, max, num) == IF REq(min, max) THEN 1 ELSE IF RLt(min, max) THEN num ELSE 0
\* the samples a half-open axis yields: num when min < max, none otherwise
HalfOpenCount(min, max, num) == IF RLt(min, max) THEN num ELSE 0

LexLess(a, b) ==
  \E i \in 1..4 : RLt(a[i], b[i]) /\ \A j \in 1..(i - 1) : a[j] = b[j]

\* C2: a returned list is in nested-loop order (radius, then elevation, then
\* azimuth, then roll): the sample of entry i is lexicographically before that
\* of entry j whenever i < j; the configuration is still what the constructor
\* stored; and every call on the discretizer returned the same list.
C2_NestedOrderAndRepeatable ==
  /\ \A k \in 1..Len(returned) :
       /\ Len(returned[k].samples) = Len(returned[k].poses)
       /\ \A i, j \in 1..Len(returned[k].samples) :
            i < j => LexLess(returned[k].samples[i], returned[k].samples[j])
       /\ returned[k] = returned[1]
  /\ Constructed => disc = StoreFields(ctor_args)

\* two calls returned, each with all four axes varying
C2_Witness ==
  /\ Len(returned) = 2
  /\ Len(returned[2].poses) = 16
  /\ returned[2].samples[1][1] # returned[2].samples[16][1]
  /\ returned[2].samples[1][4] # returned[2].samples[2][4]

Orthonormal(R) == MatMul(Transpose(R), R) = Identity
ProperRotation(R) == Orthonormal(R) /\ Det(R) = One

\* C8 as stated: every transform generated for an accepted configuration has
\* an orthonormal rotation of determinant +1.
C8_RotationsProper ==
  \A i \in 1..Len(run.object_to_camera_poses) :
    ProperRotation(run.object_to_camera_poses[i].rotation)

\* C10 as stated: for every accepted configuration the call ends by returning
\* (it does not raise), and each loop whose body can execute advances by a
\* strictly positive step.
C10_LoopsAdvance ==
  /\ run.pc # "ZeroDivisionError"
  /\ run.pc \in {"while_radius", "while_elev", "while_az", "while_roll"} =>
       /\ RLe(run.radius, disc.max_radius) => RLt(Zero, run.radius_inc)
       /\ run.pc # "while_radius" /\ RLe(run.elev, disc.max_elev) => RLt(Zero, run.elev_inc)
       /\ run.pc \in {"while_az", "while_roll"} /\ RLt(run.az, disc.max_az) =>
            RLt(Zero, run.az_inc)
       /\ run.pc = "while_roll" /\ RLt(run.roll, disc.max_roll) => RLt(Zero, run.roll_inc)

\* ------------------------------------------------ claims about StablePose
NearMinusOne(x) == RLt(RAbs(RAdd(x, One)), Q(1, 100))
NearPlusOne(x) == RLt(RAbs(RSub(x, One)), Q(1, 100))

\* C7: a StablePose built from a rotation whose determinant is within 0.01
\* of -1 holds a rotation of determinant within 0.01 of +1 that is the
\* rotation passed in with its second row negated and its first and third
\* rows unchanged.
C7_RowFlip ==
  stable_pose # NoPose /\ NearMinusOne(Det(r_arg)) =>
    /\ NearPlusOne(Det(stable_pose.r))
    /\ stable_pose.r[1] = r_arg[1]
    /\ stable_pose.r[2] = VNeg(r_arg[2])
    /\ stable_pose.r[3] = r_arg[3]

\* a pose was built from a rotation of determinant -199/200
C7_Witness ==
  /\ stable_pose # NoPose
  /\ Det(r_arg) = Q(-199, 200)
  /\ stable_pose.r # r_arg

\* --------------------------------------------- claims about VirtualCamera
RequestDone == ~request.pending /\ request.op # "none"
WrappedDone ==
  ~request.pending /\ request.op \in {"wrapped_images", "wrapped_images_viewsphere"}
Recognized == {"SEGMASK", "DEPTH", "SCALED_DEPTH"}

\* the class of the wrapper and the raw image each render mode yields
WrapperClass(render_mode) ==
  CASE render_mode = "SEGMASK" -> <<"BinaryImage", "binary">>
    [] render_mode = "DEPTH" -> <<"DepthImage", "depth">>
    [] render_mode = "SCALED_DEPTH" -> <<"ColorImage", "depth">>

\* the k-th result wraps the image rendered from the k-th projection
ImageInOrder(k) ==
  /\ result.items[k].image.class = WrapperClass(request.render_mode)[1]
  /\ result.items[k].image.data.kind = WrapperClass(request.render_mode)[2]
  /\ result.items[k].image.data.projection = ProjMatrix(camera_intr.proj_matrix, used[k])

\* the k-th input transform as wrapped_images leaves it
InputAfter(k) ==
  IF request.stable_pose = None THEN given[k] ELSE [given[k] EXCEPT !.from_frame = "stp"]

\* the transform the k-th projection is built from
RenderedFrom(k) ==
  IF request.stable_pose = None THEN given[k]
  ELSE TDot(InputAfter(k), RigidTransform(request.stable_pose.r, ZeroVec, "obj", "stp"))

\* C3 as stated: for a supported mode there is one result per input
\* transform, in input order, and the pose of the k-th is the inverse of the
\* transform the k-th projection was built from.
C3_PoseInvertsProjectionTransform ==
  WrappedDone /\ request.render_mode \in Recognized =>
    /\ result.kind = "list"
    /\ Len(result.items) = Len(given)
    /\ \A k \in 1..Len(given) :
         /\ ImageInOrder(k)
         /\ used[k] = RenderedFrom(k)
         /\ result.items[k].T_camera_obj = Inverse(used[k])

\* C3 amended: for a supported mode there is one result per input transform,
\* in input order; the k-th projection is built from the k-th input
\* transform (relabelled from_frame 'stp' and right-multiplied by the
\* stable-pose rotation with zero translation when a stable pose is given);
\* and the pose of the k-th result is the inverse of the k-th input transform
\* itself (relabelled when a stable pose is given), which is the transform
\* the projection was built from only when no stable pose is given.
C3_PoseInvertsInputTransform ==
  WrappedDone /\ request.render_mode \in Recognized =>
    /\ result.kind = "list"
    /\ Len(result.items) = Len(given)
    /\ \A k \in 1..Len(given) :
         /\ ImageInOrder(k)
         /\ used[k] = RenderedFrom(k)
         /\ result.items[k].T_camera_obj = Inverse(InputAfter(k))
         /\ request.stable_pose = None => result.items[k].T_camera_obj = Inverse(used[k])

\* wrapped_images returned results for two different transforms and a
\* stable pose
C3_Witness ==
  /\ WrappedDone /\ request.op = "wrapped_images"
  /\ request.render_mode = "SEGMASK"
  /\ request.stable_pose # None
  /\ Len(given) = 2 /\ given[1] # given[2]
  /\ result.kind = "list" /\ Len(result.items) = 2

\* C4: a finished request has called the rasterizer exactly once, with one
\* projection per transform rendered, in order, each the intrinsics matrix
\* times [R | t] of that transform, and with the camera's height and width;
\* nothing is rendered while object_to_camera_poses() is still running.
C4_OneBatchedRasterizerCall ==
  /\ request.pending => render_calls = <<>>
  /\ RequestDone =>
       /\ Len(render_calls) = 1
       /\ Len(used) = Len(given)
       /\ Len(render_calls[1].projections) = Len(used)
       /\ render_calls[1].height = camera_intr.height
       /\ render_calls[1].width = camera_intr.width
       /\ \A k \in 1..Len(used) : \A i \in 1..3 :
            /\ \A j \in 1..3 :
                 render_calls[1].projections[k][i][j] =
                   Dot(camera_intr.proj_matrix[i], Col(used[k].rotation, j))
            /\ render_calls[1].projections[k][i][4] =
                 Dot(camera_intr.proj_matrix[i], used[k].translation)
       /\ request.stable_pose = None => used = given

\* wrapped_images_viewsphere rendered four transforms with a stable pose
C4_Witness ==
  /\ RequestDone /\ request.op = "wrapped_images_viewsphere"
  /\ request.stable_pose # None
  /\ Len(given) = 4
  /\ Len(render_calls) = 1 /\ Len(render_calls[1].projections) = 4

C9_InputsUntouched ==
  /\ camera_intr \in Intrinsics
  /\ ~request.pending /\ request.op \in {"images", "wrapped_images"} => poses = given

====
